---- MODULE Spec2Model ----
(***************************************************************************)
(* Model of ultra.py: the dead-reckoning trajectory build loop, the        *)
(* per-frame `update` callback that redraws the radar and map axes, and    *)
(* the FuncAnimation driver that calls it.                                 *)
(*                                                                         *)
(* Number representation.  Sensor readings are IEEE doubles that may be    *)
(* NaN or infinite; they are records [k, v] with k in {"num","nan","ninf", *)
(* "pinf"}.  Angles are kept in degrees: an angle value d stands for the   *)
(* radian value d*pi/180 that np.deg2rad produces, and CosDeg/SinDeg       *)
(* evaluate np.cos/np.sin of it in fixed point (value * 10000, rounded).   *)
(* Positions are integers counting 1/20000 of a distance unit, so that     *)
(* 2*cos(h) is 4*CosDeg(h) and 1.5*cos(h) is 3*CosDeg(h).                  *)
(***************************************************************************)
EXTENDS Integers, Sequences, FiniteSets

\* ---------------------------------------------------------------- bounds
MaxFrames == 2

\* ------------------------------------------------------ program constants
NumSensors == 24
OBSTACLE_THRESHOLD == 30

sensor_cols == 1..NumSensors

angles_deg ==
  << 180, -165, -150, -135, -120, -105, -90, -75,
     -60, -45, -30, -15, 0, 15, 30, 45,
     60, 75, 90, 105, 120, 135, 150, 165 >>

Recognized ==
  {"Move-Forward", "Slight-Right-Turn", "Sharp-Right-Turn", "Slight-Left-Turn"}

movement_colors(cls) ==
  CASE cls = "Move-Forward"      -> "green"
    [] cls = "Slight-Right-Turn" -> "orange"
    [] cls = "Sharp-Right-Turn"  -> "red"
    [] cls = "Slight-Left-Turn"  -> "blue"
    [] OTHER                     -> "gray"

\* ---------------------------------------------------------- float values
Num(n) == [k |-> "num", v |-> n]
NaN    == [k |-> "nan", v |-> 0]
NegInf == [k |-> "ninf", v |-> 0]
PosInf == [k |-> "pinf", v |-> 0]

IsFinite(r) == r.k = "num"

\* r < n for a double r and an integer n (any comparison with NaN is false)
Lt(r, n) == r.k = "ninf" \/ (r.k = "num" /\ r.v < n)

\* cos of 0, 5, ..., 90 degrees, times 10000
CosTable ==
  << 10000, 9962, 9848, 9659, 9397, 9063, 8660, 8192, 7660, 7071,
     6428, 5736, 5000, 4226, 3420, 2588, 1736, 872, 0 >>

CosDeg(d) ==
  LET m == d % 360
  IN  IF m <= 90 THEN CosTable[(m \div 5) + 1]
      ELSE IF m <= 180 THEN -CosTable[((180 - m) \div 5) + 1]
      ELSE IF m <= 270 THEN -CosTable[((m - 180) \div 5) + 1]
      ELSE CosTable[((360 - m) \div 5) + 1]

SinDeg(d) == CosDeg(d - 90)

\* reading * cos, in 1/20000 units (c is a CosDeg value)
FMul(r, c) ==
  CASE r.k = "num"  -> Num(2 * r.v * c)
    [] r.k = "nan"  -> NaN
    [] r.k = "ninf" -> IF c > 0 THEN NegInf ELSE IF c < 0 THEN PosInf ELSE NaN
    [] r.k = "pinf" -> IF c > 0 THEN PosInf ELSE IF c < 0 THEN NegInf ELSE NaN

\* double + finite offset
FAdd(r, n) == IF r.k = "num" THEN Num(r.v + n) ELSE r

\* --------------------------------------------------------------- inputs
\* Movement labels as they come out of the CSV: the four known classes, any
\* other string, and a missing field (float NaN in the Class column).
Labels == Recognized \cup {"Stop", "nan"}

RowMixed ==
  [i \in sensor_cols |->
     CASE i = 1  -> Num(29)
       [] i = 2  -> Num(30)
       [] i = 3  -> NaN
       [] i = 4  -> NegInf
       [] i = 5  -> Num(0)
       [] i = 24 -> Num(-5)
       [] OTHER  -> Num(50)]

RowFar == [i \in sensor_cols |-> IF i = 1 THEN NaN ELSE Num(100)]

Rows == {RowMixed, RowFar}

Frames == [US : Rows, Class : Labels]

RECURSIVE SeqsUpTo(_, _)
SeqsUpTo(S, n) ==
  IF n = 0 THEN {<< >>}
  ELSE LET shorter == SeqsUpTo(S, n - 1)
       IN  shorter \cup {Append(s, e) : s \in {t \in shorter : Len(t) = n - 1}, e \in S}

\* ---------------------------------------------------------------- state
VARIABLES
  data,        \* the loaded table: sequence of [US, Class]
  positions,   \* list of <<x, y>>
  headings,    \* list of heading angles (degrees)
  li,          \* number of labels the build loop has consumed
  pc,          \* "build" | "show"
  ax_radar, ax_map, suptitle,   \* the figure
  anim,        \* FuncAnimation: "created" | "running" | "stopped"
  frame_seq,   \* next index of the animation's frame iterator
  calls,       \* frame arguments the driver has passed to update, in order
  arg,         \* argument of the most recent update call
  result,      \* "none" | "ok" | "KeyError": outcome of that call
  prev         \* [arg, result] of the call before it

vars == << data, positions, headings, li, pc, ax_radar, ax_map, suptitle,
           anim, frame_seq, calls, arg, result, prev >>

\* ------------------------------------------------------- trajectory build
InitPositions == << <<0, 0>> >>

InitHeadings == << 0 >>

\* NextPose with the sharp turn also advancing 1.5 units
NextPose_SharpAdvances(x, y, heading, cls) ==
  IF cls = "Move-Forward" THEN
    [x |-> x + 4 * CosDeg(heading), y |-> y + 4 * SinDeg(heading),
     heading |-> heading]
  ELSE IF cls = "Slight-Right-Turn" THEN
    [x |-> x + 3 * CosDeg(heading - 10), y |-> y + 3 * SinDeg(heading - 10),
     heading |-> heading - 10]
  ELSE IF cls = "Sharp-Right-Turn" THEN
    [x |-> x + 3 * CosDeg(heading - 25), y |-> y + 3 * SinDeg(heading - 25),
     heading |-> heading - 25]
  ELSE IF cls = "Slight-Left-Turn" THEN
    [x |-> x + 3 * CosDeg(heading + 10), y |-> y + 3 * SinDeg(heading + 10),
     heading |-> heading + 10]
  ELSE
    [x |-> x, y |-> y, heading |-> heading]

\* NextPose with the slight turns advancing before the heading changes
NextPose_AdvanceFirst(x, y, heading, cls) ==
  IF cls = "Move-Forward" THEN
    [x |-> x + 4 * CosDeg(heading), y |-> y + 4 * SinDeg(heading),
     heading |-> heading]
  ELSE IF cls = "Slight-Right-Turn" THEN
    [x |-> x + 3 * CosDeg(heading), y |-> y + 3 * SinDeg(heading),
     heading |-> heading - 10]
  ELSE IF cls = "Sharp-Right-Turn" THEN
    [x |-> x, y |-> y, heading |-> heading - 25]
  ELSE IF cls = "Slight-Left-Turn" THEN
    [x |-> x + 3 * CosDeg(heading), y |-> y + 3 * SinDeg(heading),
     heading |-> heading + 10]
  ELSE
    [x |-> x, y |-> y, heading |-> heading]

\* NextPose with the last branch written as a plain else: every label that
\* is not one of the first three is taken for a slight left turn
NextPose_ElseLeft(x, y, heading, cls) ==
  IF cls = "Move-Forward" THEN
    [x |-> x + 4 * CosDeg(heading), y |-> y + 4 * SinDeg(heading),
     heading |-> heading]
  ELSE IF cls = "Slight-Right-Turn" THEN
    [x |-> x + 3 * CosDeg(heading - 10), y |-> y + 3 * SinDeg(heading - 10),
     heading |-> heading - 10]
  ELSE IF cls = "Sharp-Right-Turn" THEN
    [x |-> x, y |-> y, heading |-> heading - 25]
  ELSE
    [x |-> x + 3 * CosDeg(heading + 10), y |-> y + 3 * SinDeg(heading + 10),
     heading |-> heading + 10]

\* One iteration of the loop body: the pose appended for label cls when the
\* last pose is (x, y, heading).
NextPose(x, y, heading, cls) ==
  IF cls = "Move-Forward" THEN
    [x |-> x + 4 * CosDeg(heading), y |-> y + 4 * SinDeg(heading),
     heading |-> heading]
  ELSE IF cls = "Slight-Right-Turn" THEN
    [x |-> x + 3 * CosDeg(heading - 10), y |-> y + 3 * SinDeg(heading - 10),
     heading |-> heading - 10]
  ELSE IF cls = "Sharp-Right-Turn" THEN
    [x |-> x, y |-> y, heading |-> heading - 25]
  ELSE IF cls = "Slight-Left-Turn" THEN
    [x |-> x + 3 * CosDeg(heading + 10), y |-> y + 3 * SinDeg(heading + 10),
     heading |-> heading + 10]
  ELSE
    [x |-> x, y |-> y, heading |-> heading]


\* BuildStep with the appends inside the recognized branches only
BuildStep_AppendInBranch ==
  /\ pc = "build"
  /\ li < Len(data)
  /\ LET cls  == data[li + 1].Class
         last == positions[Len(positions)]
         p    == NextPose(last[1], last[2], headings[Len(headings)], cls)
     IN  IF cls \in Recognized
         THEN /\ positions' = Append(positions, <<p.x, p.y>>)
              /\ headings' = Append(headings, p.heading)
         ELSE UNCHANGED << positions, headings >>
  /\ li' = li + 1
  /\ UNCHANGED << data, pc, ax_radar, ax_map, suptitle, anim, frame_seq,
                  calls, arg, result, prev >>

\* One step of the build loop (one label of data["Class"]).
BuildStep ==
  /\ pc = "build"
  /\ li < Len(data)
  /\ LET cls  == data[li + 1].Class
         last == positions[Len(positions)]
         p    == NextPose(last[1], last[2], headings[Len(headings)], cls)
     IN  /\ positions' = Append(positions, <<p.x, p.y>>)
         /\ headings' = Append(headings, p.heading)
  /\ li' = li + 1
  /\ UNCHANGED << data, pc, ax_radar, ax_map, suptitle, anim, frame_seq,
                  calls, arg, result, prev >>

\* Loop exhausted: the lists become arrays, the figure is built, the
\* animation object is created and plt.show() enters the event loop.
BuildDone ==
  /\ pc = "build"
  /\ li = Len(data)
  /\ pc' = "show"
  /\ UNCHANGED << data, positions, headings, li, ax_radar, ax_map, suptitle,
                  anim, frame_seq, calls, arg, result, prev >>

\* ---------------------------------------------------------------- figure
Auto == [k |-> "auto", v |-> 0]

\* plt.subplot(121, polar=True) followed by set_theta_zero_location('S') and
\* set_theta_direction(-1)
InitRadar ==
  [theta_zero |-> "S", theta_dir |-> -1, rmax |-> Auto, grid |-> FALSE,
   title |-> << >>, artists |-> << >>]

\* plt.subplot(122)
InitMap ==
  [title |-> << >>, aspect |-> "auto", grid |-> FALSE, artists |-> << >>]

\* PolarAxes.clear(): drops every artist and restores the axes defaults,
\* the theta offset and direction included.
ClearRadar(ax) ==
  [theta_zero |-> "E", theta_dir |-> 1, rmax |-> Auto, grid |-> FALSE,
   title |-> << >>, artists |-> << >>]

\* ClearMap missing: the map axes are drawn over
ClearMap_Missing(ax) == ax

\* Axes.clear(): drops every artist, title and grid; the aspect is kept.
ClearMap(ax) ==
  [title |-> << >>, aspect |-> ax.aspect, grid |-> FALSE, artists |-> << >>]

\* Axes.scatter: points with a non-finite coordinate are masked out and are
\* not drawn.
Scatter(xs, ys, color, size) ==
  LET pts == [i \in 1..Len(xs) |-> <<xs[i], ys[i]>>]
  IN  [kind |-> "scatter",
       offsets |-> SelectSeq(pts, LAMBDA p : IsFinite(p[1]) /\ IsFinite(p[2])),
       color |-> color, s |-> size]

\* LocRow clamping the index into range
LocRow_Clamp(d, frame) ==
  IF Len(d) = 0 THEN [ok |-> FALSE, row |-> [US |-> << >>, Class |-> "nan"]]
  ELSE IF frame < 0 THEN [ok |-> TRUE, row |-> d[1]]
  ELSE IF frame > Len(d) - 1 THEN [ok |-> TRUE, row |-> d[Len(d)]]
  ELSE [ok |-> TRUE, row |-> d[frame + 1]]

\* data.loc[frame, ...]: label lookup on the RangeIndex 0..len(data)-1;
\* a label that is not in the index raises KeyError.
LocRow(d, frame) ==
  IF frame \in 0..(Len(d) - 1)
  THEN [ok |-> TRUE, row |-> d[frame + 1]]
  ELSE [ok |-> FALSE, row |-> [US |-> << >>, Class |-> "nan"]]

\* np.nanmax(data[sensor_cols].values)
NanMax(d) ==
  LET vals == {d[f].US[i] : f \in 1..Len(d), i \in sensor_cols} \ {NaN}
      fin  == {r.v : r \in {q \in vals : IsFinite(q)}}
  IN  IF vals = {} THEN NaN
      ELSE IF PosInf \in vals THEN PosInf
      ELSE IF fin # {} THEN Num(CHOOSE m \in fin : \A n \in fin : n <= m)
      ELSE NegInf

\* r * 1.1, in tenths of a unit
Times11(r) == IF r.k = "num" THEN Num(11 * r.v) ELSE r

\* IsClose with <= in place of <
IsClose_Le(r) == r.k = "ninf" \/ (r.k = "num" /\ r.v <= OBSTACLE_THRESHOLD)

\* the close-obstacle test of the highlight loop
IsClose(r) == Lt(r, OBSTACLE_THRESHOLD)

\* number of iterations of the highlight loop
HighlightCount(readings) == NumSensors

\* for i in range(...): if readings[i] < OBSTACLE_THRESHOLD: scatter(...)
RECURSIVE Highlight(_, _, _, _, _)
Highlight(artists, angles, readings, i, n) ==
  IF i > n THEN artists
  ELSE Highlight(
         IF IsClose(readings[i])
         THEN Append(artists,
                     Scatter(<<Num(angles[i])>>, <<readings[i]>>, "red", 40))
         ELSE artists,
         angles, readings, i + 1, n)

\* MapPath as positions[:frame]
MapPath_Short(ps, frame) == SubSeq(ps, 1, frame)

\* MapPath as positions[:frame+2]
MapPath_Long(ps, frame) == SubSeq(ps, 1, frame + 2)

\* positions[:frame+1], with the slice stop counted from the end when it is
\* negative and clipped to the length
MapPath(ps, frame) ==
  LET stop == frame + 1
      last == IF stop < 0
              THEN (IF Len(ps) + stop < 0 THEN 0 ELSE Len(ps) + stop)
              ELSE (IF stop > Len(ps) THEN Len(ps) ELSE stop)
  IN  SubSeq(ps, 1, last)

\* seq[i] with a 0-based index, negative indices counted from the end
PyAt(seq, i) == seq[IF i < 0 THEN Len(seq) + i + 1 ELSE i + 1]

\* The radar half of update, after the row has been fetched.
DrawRadar(ax, d, row) ==
  LET readings   == Append(row.US, row.US[1])
      angles     == Append(angles_deg, angles_deg[1])
      base_color == movement_colors(row.Class)
      plotted    == << [kind |-> "line", xs |-> angles, ys |-> readings,
                        color |-> base_color, linewidth |-> 2],
                       [kind |-> "fill", xs |-> angles, ys |-> readings,
                        color |-> base_color, alpha |-> 15] >>
  IN  [ax EXCEPT
         !.artists = Highlight(ax.artists \o plotted, angles, readings, 1,
                               HighlightCount(readings)),
         !.rmax = Times11(NanMax(d)),
         !.grid = TRUE,
         !.title = <<"Radar View", row.Class>>]

\* The map half of update.
DrawMap(ax, ps, hs, row, frame) ==
  LET robot_x       == PyAt(ps, frame)[1]
      robot_y       == PyAt(ps, frame)[2]
      heading_angle == PyAt(hs, frame)
      base_color    == movement_colors(row.Class)
      x_local == [i \in sensor_cols |->
                    FMul(row.US[i], CosDeg(angles_deg[i] + heading_angle))]
      y_local == [i \in sensor_cols |->
                    FMul(row.US[i], SinDeg(angles_deg[i] + heading_angle))]
  IN  [ax EXCEPT
         !.title = <<"Top-Down Robot Path">>,
         !.aspect = "equal",
         !.grid = TRUE,
         !.artists = ax.artists \o
           << [kind |-> "line", pts |-> MapPath(ps, frame), style |-> "k--"],
              Scatter(<<Num(robot_x)>>, <<Num(robot_y)>>, base_color, 80),
              [kind |-> "arrow", x |-> robot_x, y |-> robot_y,
               dx |-> 20 * CosDeg(heading_angle),
               dy |-> 20 * SinDeg(heading_angle)],
              [kind |-> "circle", x |-> robot_x, y |-> robot_y,
               radius |-> OBSTACLE_THRESHOLD, color |-> "red"],
              Scatter([i \in sensor_cols |-> FAdd(x_local[i], robot_x)],
                      [i \in sensor_cols |-> FAdd(y_local[i], robot_y)],
                      "lightgray", 20) >>]

\* update(frame) applied to a figure: the figure it leaves and how it ended.
\* Both axes are cleared before the row lookup, so a KeyError leaves them
\* empty and the suptitle untouched.
update(axr, axm, sup, d, ps, hs, frame) ==
  LET loc == LocRow(d, frame)
      r0  == ClearRadar(axr)
      m0  == ClearMap(axm)
  IN  IF ~loc.ok
      THEN [radar |-> r0, map |-> m0, sup |-> sup, result |-> "KeyError"]
      ELSE [radar |-> DrawRadar(r0, d, loc.row),
            map |-> DrawMap(m0, ps, hs, loc.row, frame),
            sup |-> <<frame + 1, Len(d), loc.row.Class>>,
            result |-> "ok"]

Redraw(frame) ==
  \E u \in {update(ax_radar, ax_map, suptitle, data, positions, headings,
                   frame)} :
      /\ ax_radar' = u.radar
      /\ ax_map' = u.map
      /\ suptitle' = u.sup
      /\ result' = u.result
      /\ arg' = frame
      /\ prev' = [arg |-> arg, result |-> result]

\* ------------------------------------------------------ animation driver
\* repeat left at the FuncAnimation default
repeat_Default == TRUE

\* FuncAnimation(fig, update, frames=len(data), interval=250, repeat=False)
repeat == FALSE

NumFrames(d) == Len(d)

\* First draw of the figure: with no init_func, the animation draws the first
\* item of a fresh frame sequence by calling update on it; an empty sequence
\* only warns.
InitDraw ==
  /\ pc = "show"
  /\ anim = "created"
  /\ anim' = "running"
  /\ frame_seq' = 0
  /\ IF NumFrames(data) > 0
     THEN Redraw(0) /\ calls' = Append(calls, 0)
     ELSE UNCHANGED << ax_radar, ax_map, suptitle, result, arg, prev, calls >>
  /\ UNCHANGED << data, positions, headings, li, pc >>

\* Timer tick: the next item of the frame sequence is drawn.
TimerStep ==
  /\ anim = "running"
  /\ frame_seq < NumFrames(data)
  /\ Redraw(frame_seq)
  /\ calls' = Append(calls, frame_seq)
  /\ frame_seq' = frame_seq + 1
  /\ UNCHANGED << data, positions, headings, li, pc, anim >>

\* Timer tick on an exhausted frame sequence: with repeat=False the timer
\* is removed; with repeat it would redraw the first frame and start over.
TimerStop ==
  /\ anim = "running"
  /\ frame_seq >= NumFrames(data)
  /\ IF repeat /\ NumFrames(data) > 0
     THEN /\ Redraw(0)
          /\ calls' = Append(calls, 0)
          /\ frame_seq' = 0
          /\ UNCHANGED anim
     ELSE /\ anim' = "stopped"
          /\ UNCHANGED << ax_radar, ax_map, suptitle, result, arg, prev,
                          calls, frame_seq >>
  /\ UNCHANGED << data, positions, headings, li, pc >>

\* A direct call of update by any caller, in or out of range.
CallUpdate ==
  /\ pc = "show"
  /\ \E frame \in -1..Len(data) : Redraw(frame)
  /\ UNCHANGED << data, positions, headings, li, pc, anim, frame_seq, calls >>

\* -------------------------------------------------------- specifications
Init ==
  /\ data \in SeqsUpTo(Frames, MaxFrames)
  /\ positions = InitPositions
  /\ headings = InitHeadings
  /\ li = 0
  /\ pc = "build"
  /\ ax_radar = InitRadar
  /\ ax_map = InitMap
  /\ suptitle = << >>
  /\ anim = "created"
  /\ frame_seq = 0
  /\ calls = << >>
  /\ arg = 0
  /\ result = "none"
  /\ prev = [arg |-> 0, result |-> "none"]

\* the program as written: build, then the animation drives update
Next == BuildStep \/ BuildDone \/ InitDraw \/ TimerStep \/ TimerStop

Spec == Init /\ [][Next]_vars

\* the program with update called directly, in any order
NextCaller == BuildStep \/ BuildDone \/ CallUpdate

SpecCaller == Init /\ [][NextCaller]_vars

\* ================================================================ claims
N == Len(data)

\* the label consumed by build step i and the poses around it
LabelAt(i) == data[i].Class
Advance(p, len, h) == <<p[1] + len * CosDeg(h), p[2] + len * SinDeg(h)>>

\* C1: for every label sequence of length N (N = 0 and unrecognized labels
\* included) the built trajectory has exactly N+1 poses, one per label
\* consumed plus the first, and the first pose is the origin with heading 0.
C1_TrajectoryLength ==
  /\ Len(positions) = li + 1
  /\ Len(headings) = li + 1
  /\ positions[1] = <<0, 0>>
  /\ headings[1] = 0
  /\ pc = "show" => (Len(positions) = N + 1 /\ Len(headings) = N + 1)

C1_Witness ==
  /\ pc = "show"
  /\ N >= 2
  /\ \E i \in 1..N : LabelAt(i) \notin Recognized

\* C2: a Sharp-Right-Turn step leaves the position unchanged and lowers the
\* heading by 25; no other recognized label changes the heading without
\* changing the position.
C2_SharpTurnInPlace ==
  \A i \in 1..li :
    /\ LabelAt(i) = "Sharp-Right-Turn" =>
         (positions[i + 1] = positions[i] /\ headings[i + 1] = headings[i] - 25)
    /\ ( /\ LabelAt(i) \in Recognized
         /\ headings[i + 1] # headings[i]
         /\ positions[i + 1] = positions[i] ) => LabelAt(i) = "Sharp-Right-Turn"

C2_Witness ==
  \E i \in 2..li :
    /\ LabelAt(i) = "Sharp-Right-Turn"
    /\ positions[i] # <<0, 0>>
    /\ headings[i] # 0

\* C3: Move-Forward keeps the heading and advances 2 units along it; the
\* slight right/left turns change the heading by -10/+10 and advance 1.5
\* units along the new heading, which is not the advance along the old one.
C3_ForwardAndSlightTurns ==
  \A i \in 1..li :
    LET p == positions[i]
        h == headings[i]
    IN  /\ LabelAt(i) = "Move-Forward" =>
             (headings[i + 1] = h /\ positions[i + 1] = Advance(p, 4, h))
        /\ LabelAt(i) = "Slight-Right-Turn" =>
             /\ headings[i + 1] = h - 10
             /\ positions[i + 1] = Advance(p, 3, h - 10)
             /\ positions[i + 1] # Advance(p, 3, h)
        /\ LabelAt(i) = "Slight-Left-Turn" =>
             /\ headings[i + 1] = h + 10
             /\ positions[i + 1] = Advance(p, 3, h + 10)
             /\ positions[i + 1] # Advance(p, 3, h)

C3_Witness ==
  /\ li >= 2
  /\ LabelAt(1) \in {"Slight-Right-Turn", "Slight-Left-Turn"}
  /\ LabelAt(2) \in {"Move-Forward", "Slight-Right-Turn", "Slight-Left-Turn"}
  /\ positions[3] # positions[2]

\* C4: a label outside the four recognized values (a missing label included)
\* appends a pose equal to the previous one, and the loop goes on to the next
\* label: while labels remain the build step is enabled.
C4_UnrecognizedIsNoOp ==
  /\ \A i \in 1..li :
       LabelAt(i) \notin Recognized =>
         (positions[i + 1] = positions[i] /\ headings[i + 1] = headings[i])
  /\ (pc = "build" /\ li < N) => ENABLED BuildStep

C4_Witness ==
  \E i \in 1..(li - 1) :
    /\ LabelAt(i) = "nan"
    /\ LabelAt(i + 1) \in Recognized
    /\ positions[i + 1] = positions[i]
    /\ headings[i + 2] # headings[i + 1]

\* the red markers of the radar axes that show a point
RedMarkers(ax) ==
  SelectSeq(ax.artists,
            LAMBDA a : a.kind = "scatter" /\ a.color = "red" /\ a.offsets # << >>)

Highlighted(ax, row, i) ==
  \E j \in 1..Len(RedMarkers(ax)) :
    RedMarkers(ax)[j].offsets = << <<Num(angles_deg[i]), row[i]>> >>

\* C5: in every rendered frame the sensors marked as close obstacles are
\* exactly those whose reading is finite and below 30 (30 itself, NaN and
\* the repeated closing vertex add none): one marker per such sensor.
C5_HighlightSet ==
  result = "ok" =>
    LET row   == data[arg + 1].US
        close == {i \in sensor_cols : IsFinite(row[i]) /\ row[i].v < 30}
    IN  /\ {i \in sensor_cols : Highlighted(ax_radar, row, i)} = close
        /\ Len(RedMarkers(ax_radar)) = Cardinality(close)

C5_Witness ==
  /\ result = "ok"
  /\ data[arg + 1].US = RowMixed
  /\ Len(RedMarkers(ax_radar)) = 3

\* the artists of the map axes
MapLines(ax) == SelectSeq(ax.artists, LAMBDA a : a.kind = "line")
MapArrows(ax) == SelectSeq(ax.artists, LAMBDA a : a.kind = "arrow")
PoseMarkers(ax) ==
  SelectSeq(ax.artists, LAMBDA a : a.kind = "scatter" /\ a.s = 80)
DrawnPath(ax) == MapLines(ax)[1].pts

C6_PathOfFrame ==
  result = "ok" =>
    /\ Len(MapLines(ax_map)) = 1
    /\ DrawnPath(ax_map) = SubSeq(positions, 1, arg + 1)
    /\ Len(DrawnPath(ax_map)) = arg + 1
    /\ Len(PoseMarkers(ax_map)) = 1
    /\ PoseMarkers(ax_map)[1].offsets =
         << <<Num(positions[arg + 1][1]), Num(positions[arg + 1][2])>> >>
    /\ Len(MapArrows(ax_map)) = 1
    /\ MapArrows(ax_map)[1] =
         [kind |-> "arrow", x |-> positions[arg + 1][1],
          y |-> positions[arg + 1][2],
          dx |-> 20 * CosDeg(headings[arg + 1]),
          dy |-> 20 * SinDeg(headings[arg + 1])]

C6_PathGrowsByOne ==
  (result = "ok" /\ result' = "ok" /\ arg' = arg + 1) =>
    DrawnPath(ax_map)' = Append(DrawnPath(ax_map), positions[arg + 2])

\* C6: for every frame k the drawn path is the polyline through poses 0..k
\* (k+1 points), the pose marker and the heading arrow are those of pose k,
\* and a step from frame k to frame k+1 extends the path by one pose.
C6_PathAndPose == [](C6_PathOfFrame) /\ [][C6_PathGrowsByOne]_vars

C6_Witness ==
  /\ result = "ok"
  /\ arg >= 1
  /\ prev.result = "ok"
  /\ prev.arg = arg - 1
  /\ positions[arg + 1] # positions[arg]
  /\ headings[arg + 1] # 0

\* C7 as stated: the path drawn for the last frame contains every pose the
\* build computed.
C7_Original ==
  (result = "ok" /\ arg = N - 1) =>
    \A i \in 1..Len(positions) :
      \E j \in 1..Len(DrawnPath(ax_map)) : DrawnPath(ax_map)[j] = positions[i]

\* C7 (amended): the path drawn for the last frame N-1 is the polyline
\* through the first N of the N+1 computed poses; no frame draws a path with
\* the final pose as a further vertex, so when the animation has stopped the
\* map shows poses 0..N-1 and the pose after the last label has not appeared.
C7_AllButFinalPose ==
  /\ result = "ok" => Len(DrawnPath(ax_map)) <= N
  /\ (result = "ok" /\ arg = N - 1) =>
       DrawnPath(ax_map) = SubSeq(positions, 1, N)
  /\ (anim = "stopped" /\ N > 0) =>
       (result = "ok" /\ arg = N - 1 /\ Len(positions) = N + 1)

C7_Witness ==
  /\ anim = "stopped"
  /\ N >= 2
  /\ positions[N + 1] # positions[N]
  /\ \A j \in 1..Len(DrawnPath(ax_map)) : DrawnPath(ax_map)[j] # positions[N + 1]

\* C8: a call of update with a frame index outside 0..N-1 (negative, or N
\* and above) ends in an error and draws nothing: neither axes holds any
\* artist, so no other frame's data is shown in its place.
C8_OutOfRangeIsError ==
  (result # "none" /\ arg \notin 0..(N - 1)) =>
    /\ result = "KeyError"
    /\ ax_radar.artists = << >>
    /\ ax_map.artists = << >>
    /\ ax_radar.title = << >>
    /\ ax_map.title = << >>

C8_Witness ==
  /\ result = "KeyError"
  /\ arg = N
  /\ N >= 1
  /\ prev.result = "ok"

\* the figure update leaves when it draws frame k on the freshly built figure
FirstRender(k) ==
  update(InitRadar, InitMap, << >>, data, positions, headings, k)

C10_Stateless ==
  result = "ok" =>
    /\ ax_radar = FirstRender(arg).radar
    /\ ax_map = FirstRender(arg).map
    /\ suptitle = FirstRender(arg).sup

C10_Witness ==
  /\ result = "ok"
  /\ prev.result = "ok"
  /\ prev.arg > arg
  /\ data[prev.arg + 1] # data[arg + 1]

====
